---- MODULE Spec2Model ----
(***************************************************************************)
(* Model of the blog entry maker: the JSON post store (src/src/blog.rs)    *)
(* and the Publish button of the window (src/src/main.rs).                 *)
(*                                                                         *)
(* A text (Rust String) is a sequence of characters, each character a      *)
(* one-character TLA+ string; fixed literals are kept as one chunk.        *)
(* The store file's JSON text is a sequence of tokens: punctuation, object *)
(* keys and string values, in the order serde_json writes them.            *)
(***************************************************************************)
EXTENDS Integers, Sequences, FiniteSets, TLC

VARIABLES
  env,          \* state of the variable BLOG_POSTS_FILE in the process environment
  file,         \* the store file: [exists, readable, text]
  title,        \* MyApp.title
  content,      \* MyApp.content
  result_text,  \* MyApp.result_text
  calls,        \* history: the publish calls completed so far, oldest first
  pc,           \* per process: position inside publish
  post,         \* per process: the argument of publish
  blog_posts,   \* per process: the local blog_posts of publish
  ret,          \* per process: the value publish returned
  trace,        \* history: the file operations of the processes, in order
  splitIn,      \* the argument of split_on_line_breaks
  splitOut      \* its result, once applied

vars == <<env, file, title, content, result_text, calls,
          pc, post, blog_posts, ret, trace, splitIn, splitOut>>

----------------------------------------------------------------------------
(* Bounds *)
MaxCalls == 2
MaxLen == 6

----------------------------------------------------------------------------
(* blog.rs: constants, errors and their Display *)

POSTS_FILE_VAR_NAME == <<"BLOG_POSTS_FILE">>

UnableToReadPostsFile == [kind |-> "UnableToReadPostsFile", msg |-> <<>>]
PostsFileUnParsable == [kind |-> "PostsFileUnParsable", msg |-> <<>>]
CouldNotWritePostsFile == [kind |-> "CouldNotWritePostsFile", msg |-> <<>>]
EnvVarNotFound(s) == [kind |-> "EnvVarNotFound", msg |-> s]

Ok(v) == [ok |-> TRUE, val |-> v]
Err(e) == [ok |-> FALSE, err |-> e]

\* #[error("...")] of BlogError: e.to_string()
BlogErrorDisplay(e) ==
  CASE e.kind = "UnableToReadPostsFile" -> <<"Unable to Read Posts File">>
    [] e.kind = "PostsFileUnParsable" -> <<"Posts file has unparsable JSON">>
    [] e.kind = "CouldNotWritePostsFile" -> <<"Could not write to or save Posts file">>
    [] e.kind = "EnvVarNotFound" -> <<"Could not find env var: ">> \o e.msg

\* std::env::VarError's Display, for the two ways env::var fails
VarErrorDisplay(v) ==
  IF v = "NotPresent" THEN <<"environment variable not found">>
  ELSE <<"environment variable was not valid unicode">>

----------------------------------------------------------------------------
(* blog.rs: the timestamp *)

Digit(d) == <<"0", "1", "2", "3", "4", "5", "6", "7", "8", "9">>[d + 1]
Pad2(n) == <<Digit((n \div 10) % 10), Digit(n % 10)>>
Pad4(n) == <<Digit((n \div 1000) % 10), Digit((n \div 100) % 10)>> \o Pad2(n % 100)

\* time.format("%Y:%m:%d:%H:%M:%S")
time_to_soleilfou(time) ==
  Pad4(time.year) \o <<":">> \o Pad2(time.month) \o <<":">> \o Pad2(time.day)
    \o <<":">> \o Pad2(time.hour) \o <<":">> \o Pad2(time.minute)
    \o <<":">> \o Pad2(time.second)

----------------------------------------------------------------------------
(* blog.rs: the JSON text of a BlogPostsForJson *)

P(x) == [k |-> "punct", v |-> <<x>>]
K(x) == [k |-> "key", v |-> <<x>>]
S(t) == [k |-> "string", v |-> t]

RECURSIVE LinesToJson(_)
LinesToJson(lines) ==
  IF lines = <<>> THEN <<>> ELSE <<S(Head(lines))>> \o LinesToJson(Tail(lines))

PostToJson(p) ==
  <<P("{"), K("woa_time"), S(p.woa_time), K("title"), S(p.title), K("content"), P("[")>>
    \o LinesToJson(p.content) \o <<P("]"), P("}")>>

RECURSIVE PostsToJson(_)
PostsToJson(ps) ==
  IF ps = <<>> THEN <<>> ELSE PostToJson(Head(ps)) \o PostsToJson(Tail(ps))

FooterLinkToJson(l) ==
  <<P("{"), K("label"), S(l.label), K("url"), S(l.url), P("}")>>

RECURSIVE FooterLinksToJson(_)
FooterLinksToJson(ls) ==
  IF ls = <<>> THEN <<>> ELSE FooterLinkToJson(Head(ls)) \o FooterLinksToJson(Tail(ls))

\* serde_json::to_string never fails on this plain data
to_json_string(self) ==
  Ok(<<P("{"), K("page"), P("{"), K("title"), S(self.page.title), K("css"),
       S(self.page.css), P("}"), K("footer_links"), P("[")>>
     \o FooterLinksToJson(self.footer_links)
     \o <<P("]"), K("posts"), P("[")>>
     \o PostsToJson(self.posts)
     \o <<P("]"), P("}")>>)

ParseFail == [ok |-> FALSE, val |-> <<>>, rest |-> <<>>]
Parsed(v, r) == [ok |-> TRUE, val |-> v, rest |-> r]
Drop(s, n) == SubSeq(s, n + 1, Len(s))
IsString(tok) == tok.k = "string"

\* Vec<String>: string values up to the closing bracket
RECURSIVE ParseLines(_)
ParseLines(toks) ==
  IF toks = <<>> THEN ParseFail
  ELSE IF Head(toks) = P("]") THEN Parsed(<<>>, Tail(toks))
  ELSE IF IsString(Head(toks))
    THEN LET r == ParseLines(Tail(toks))
         IN IF r.ok THEN Parsed(<<Head(toks).v>> \o r.val, r.rest) ELSE ParseFail
  ELSE ParseFail

\* PostForJson
ParsePost(toks) ==
  IF /\ Len(toks) >= 7
     /\ toks[1] = P("{") /\ toks[2] = K("woa_time") /\ IsString(toks[3])
     /\ toks[4] = K("title") /\ IsString(toks[5])
     /\ toks[6] = K("content") /\ toks[7] = P("[")
  THEN LET r == ParseLines(Drop(toks, 7))
       IN IF r.ok /\ r.rest # <<>> /\ Head(r.rest) = P("}")
          THEN Parsed([woa_time |-> toks[3].v, title |-> toks[5].v, content |-> r.val],
                      Tail(r.rest))
          ELSE ParseFail
  ELSE ParseFail

\* Vec<PostForJson>
RECURSIVE ParsePosts(_)
ParsePosts(toks) ==
  IF toks = <<>> THEN ParseFail
  ELSE IF Head(toks) = P("]") THEN Parsed(<<>>, Tail(toks))
  ELSE LET p == ParsePost(toks)
       IN IF p.ok
          THEN LET r == ParsePosts(p.rest)
               IN IF r.ok THEN Parsed(<<p.val>> \o r.val, r.rest) ELSE ParseFail
          ELSE ParseFail

\* FooterLink
ParseFooterLink(toks) ==
  IF /\ Len(toks) >= 6
     /\ toks[1] = P("{") /\ toks[2] = K("label") /\ IsString(toks[3])
     /\ toks[4] = K("url") /\ IsString(toks[5]) /\ toks[6] = P("}")
  THEN Parsed([label |-> toks[3].v, url |-> toks[5].v], Drop(toks, 6))
  ELSE ParseFail

\* Vec<FooterLink>
RECURSIVE ParseFooterLinks(_)
ParseFooterLinks(toks) ==
  IF toks = <<>> THEN ParseFail
  ELSE IF Head(toks) = P("]") THEN Parsed(<<>>, Tail(toks))
  ELSE LET l == ParseFooterLink(toks)
       IN IF l.ok
          THEN LET r == ParseFooterLinks(l.rest)
               IN IF r.ok THEN Parsed(<<l.val>> \o r.val, r.rest) ELSE ParseFail
          ELSE ParseFail

from_json_string(json_string) ==
  IF /\ Len(json_string) >= 10
     /\ json_string[1] = P("{") /\ json_string[2] = K("page")
     /\ json_string[3] = P("{") /\ json_string[4] = K("title")
     /\ IsString(json_string[5]) /\ json_string[6] = K("css")
     /\ IsString(json_string[7]) /\ json_string[8] = P("}")
     /\ json_string[9] = K("footer_links") /\ json_string[10] = P("[")
  THEN LET ls == ParseFooterLinks(Drop(json_string, 10))
       IN IF ls.ok /\ Len(ls.rest) >= 2 /\ ls.rest[1] = K("posts") /\ ls.rest[2] = P("[")
          THEN LET ps == ParsePosts(Drop(ls.rest, 2))
               IN IF ps.ok /\ ps.rest = <<P("}")>>
                  THEN Ok([page |-> [title |-> json_string[5].v, css |-> json_string[7].v],
                           footer_links |-> ls.val,
                           posts |-> ps.val])
                  ELSE Err(PostsFileUnParsable)
          ELSE Err(PostsFileUnParsable)
  ELSE Err(PostsFileUnParsable)

----------------------------------------------------------------------------
(* blog.rs: files *)

\* What std::fs::write (File::create, then write_all) can do to the file:
\* write everything; fail to open, leaving the file alone; or fail in
\* write_all after the open has truncated the file.  (A write_all that fails
\* half way leaves a text cut short, which like the empty one does not parse.)
WriteOutcomes == {"written", "open_failed", "write_failed"}

fs_write(f, data, wo) ==
  CASE wo = "written" ->
         [res |-> Ok(TRUE),
          file |-> [exists |-> TRUE,
                    readable |-> IF f.exists THEN f.readable ELSE TRUE,
                    text |-> data]]
    [] wo = "open_failed" -> [res |-> Err("io"), file |-> f]
    [] wo = "write_failed" ->
         [res |-> Err("io"),
          file |-> [exists |-> TRUE,
                    readable |-> IF f.exists THEN f.readable ELSE TRUE,
                    text |-> <<>>]]

\* std::fs::read_to_string
fs_read_to_string(f) ==
  IF f.exists /\ f.readable THEN Ok(f.text) ELSE Err("io")

save_to_file(self, f, wo) ==
  LET json_string == to_json_string(self)
  IN IF ~json_string.ok THEN [res |-> Err(CouldNotWritePostsFile), file |-> f]
     ELSE LET w == fs_write(f, json_string.val, wo)
          IN [res |-> IF w.res.ok THEN Ok(TRUE) ELSE Err(CouldNotWritePostsFile),
              file |-> w.file]

from_file(f) ==
  LET file_contents == fs_read_to_string(f)
  IN IF ~file_contents.ok THEN Err(UnableToReadPostsFile)
     ELSE from_json_string(file_contents.val)

for_json(self, time) ==
  [woa_time |-> time_to_soleilfou(time), title |-> self.title, content |-> self.content]

\* insert(1, ..) instead of insert(0, ..)
add_post_after_first(self, p, time) ==
  [self EXCEPT !.posts = IF @ = <<>> THEN <<for_json(p, time)>>
                         ELSE <<Head(@), for_json(p, time)>> \o Tail(@)]

\* push instead of insert(0, ..)
add_post_push(self, p, time) ==
  [self EXCEPT !.posts = Append(@, for_json(p, time))]

add_post(self, p, time) ==
  [self EXCEPT !.posts = <<for_json(p, time)>> \o @]

----------------------------------------------------------------------------
(* blog.rs: publish *)

\* the message without the variable's name
error_fmt_no_name ==
  <<"No blog posts file specified - please set the env var">>

error_fmt ==
  <<"No blog posts file specified - please set the env var:'">>
    \o POSTS_FILE_VAR_NAME \o <<"'">>

\* env::var(POSTS_FILE_VAR_NAME).map_err(...)
EnvLookup(envv) ==
  IF envv = "Set" THEN Ok("filename")
  ELSE Err(EnvVarNotFound(error_fmt \o <<":">> \o VarErrorDisplay(envv)))

\* a default that is not empty
DefaultWithPlaceholder ==
  [posts |-> <<>>, footer_links |-> <<[label |-> <<"h">>, url |-> <<"/">>]>>,
   page |-> [title |-> <<"B">>, css |-> <<>>]]

\* the collection of unwrap_or_else
DefaultBlogPosts ==
  [posts |-> <<>>, footer_links |-> <<>>, page |-> [title |-> <<>>, css |-> <<>>]]

LoadOrDefault(f) ==
  LET loaded == from_file(f)
  IN IF loaded.ok THEN loaded.val ELSE DefaultBlogPosts

\* from_file(&filename)? instead of unwrap_or_else
publish_read_error_propagated(p, envv, f, time, wo) ==
  LET filename == EnvLookup(envv)
  IN IF ~filename.ok
     THEN [ret |-> Err(filename.err), file |-> f, io |-> <<"env">>]
     ELSE LET loaded == from_file(f)
          IN IF ~loaded.ok
             THEN [ret |-> Err(loaded.err), file |-> f, io |-> <<"env", "read">>]
             ELSE LET added == add_post(loaded.val, p, time)
                      saved == save_to_file(added, f, wo)
                  IN [ret |-> IF saved.res.ok THEN Ok(TRUE)
                              ELSE Err(CouldNotWritePostsFile),
                      file |-> saved.file,
                      io |-> <<"env", "read", "write">>]

\* the default only for a file that cannot be read; a parse error is returned
publish_parse_error_surfaced(p, envv, f, time, wo) ==
  LET filename == EnvLookup(envv)
  IN IF ~filename.ok
     THEN [ret |-> Err(filename.err), file |-> f, io |-> <<"env">>]
     ELSE LET loaded == from_file(f)
          IN IF ~loaded.ok /\ loaded.err.kind = "PostsFileUnParsable"
             THEN [ret |-> Err(loaded.err), file |-> f, io |-> <<"env", "read">>]
             ELSE LET added == add_post(IF loaded.ok THEN loaded.val ELSE DefaultBlogPosts,
                                        p, time)
                      saved == save_to_file(added, f, wo)
                  IN [ret |-> IF saved.res.ok THEN Ok(TRUE)
                              ELSE Err(CouldNotWritePostsFile),
                      file |-> saved.file,
                      io |-> <<"env", "read", "write">>]

\* One whole call: the value returned, the file it leaves and the
\* operations it performed, in order.
publish(p, envv, f, time, wo) ==
  LET filename == EnvLookup(envv)
  IN IF ~filename.ok
     THEN [ret |-> Err(filename.err), file |-> f, io |-> <<"env">>]
     ELSE LET loaded == LoadOrDefault(f)
              added == add_post(loaded, p, time)
              saved == save_to_file(added, f, wo)
          IN [ret |-> IF saved.res.ok THEN Ok(TRUE) ELSE Err(CouldNotWritePostsFile),
              file |-> saved.file,
              io |-> <<"env", "read", "write">>]

----------------------------------------------------------------------------
(* main.rs: split_on_line_breaks *)

\* content.replace("\r", "")
StripCR(s) == SelectSeq(s, LAMBDA c : c # "\r")

FirstLF(s) == CHOOSE i \in 1..Len(s) : s[i] = "\n" /\ \A j \in 1..(i - 1) : s[j] # "\n"

\* strip_r.split("\n")
RECURSIVE SplitLF(_)
SplitLF(s) ==
  IF \A i \in 1..Len(s) : s[i] # "\n" THEN <<s>>
  ELSE <<SubSeq(s, 1, FirstLF(s) - 1)>> \o SplitLF(Drop(s, FirstLF(s)))

\* the split without the replace
split_keep_cr(c) == SplitLF(c)

split_on_line_breaks(c) == SplitLF(StripCR(c))

----------------------------------------------------------------------------
(* The states the environment can be in at the start *)

EnvStates == {"Set", "NotPresent", "NotUnicode"}

\* what Local::now() can return: the local clock may stand still, advance or
\* be set back between two calls
StartTime ==
  [year |-> 2024, month |-> 3, day |-> 7, hour |-> 9, minute |-> 59, second |-> 59]
Times == { StartTime, [StartTime EXCEPT !.hour = 10, !.minute = 0, !.second = 5] }

Absent == [exists |-> FALSE, readable |-> FALSE, text |-> <<>>]
Stored(c) == [exists |-> TRUE, readable |-> TRUE, text |-> to_json_string(c).val]

OldPost1 ==
  [woa_time |-> time_to_soleilfou([StartTime EXCEPT !.day = 6]),
   title |-> <<"o", "1">>, content |-> <<<<"x">>, <<>>>>]
OldPost2 ==
  [woa_time |-> time_to_soleilfou([StartTime EXCEPT !.day = 5]),
   title |-> <<"o", "2">>, content |-> <<>>]
SamplePage == [title |-> <<"B", "l", "o", "g">>, css |-> <<"s", ".", "c", "s", "s">>]
SampleLinks == <<[label |-> <<"h">>, url |-> <<"/">>]>>

EmptyStore == [page |-> SamplePage, footer_links |-> SampleLinks, posts |-> <<>>]
FullStore == [page |-> SamplePage, footer_links |-> SampleLinks,
              posts |-> <<OldPost1, OldPost2>>]

\* a store cut short, and a well-formed document of another shape
TruncatedText == SubSeq(Stored(FullStore).text, 1, 14)
WrongShapeText == <<P("{"), K("posts"), P("["), P("]"), P("}")>>

InitFiles ==
  { Absent, Stored(EmptyStore), Stored(FullStore),
    [Stored(FullStore) EXCEPT !.readable = FALSE],
    [exists |-> TRUE, readable |-> TRUE, text |-> TruncatedText],
    [exists |-> TRUE, readable |-> TRUE, text |-> WrongShapeText] }

\* what the user types
Titles == { <<"T">> }
Contents == { <<"a", "\r", "\n", "b", "\n", "c">> }

----------------------------------------------------------------------------
(* main.rs: the window *)

NoProcs == [p \in {} |-> 0]

Init ==
  /\ env \in EnvStates
  /\ file \in InitFiles
  /\ result_text = <<>>
  /\ title = <<"Today's Entry">>
  /\ content = <<"Something happend today">>
  /\ calls = <<>>
  /\ pc = NoProcs /\ post = NoProcs /\ blog_posts = NoProcs /\ ret = NoProcs
  /\ trace = <<>>
  /\ splitIn = <<>> /\ splitOut = <<>>

\* text_edit_singleline(&mut self.title)
EditTitle(t) ==
  /\ title' = t
  /\ UNCHANGED <<env, file, content, result_text, calls,
                 pc, post, blog_posts, ret, trace, splitIn, splitOut>>

\* TextEdit::multiline(&mut self.content)
EditContent(c) ==
  /\ content' = c
  /\ UNCHANGED <<env, file, title, result_text, calls,
                 pc, post, blog_posts, ret, trace, splitIn, splitOut>>

\* the fields cleared only in the Ok arm
Click_clear_on_success(wo, now) ==
  /\ Len(calls) < MaxCalls
  /\ LET p == [title |-> title, content |-> split_on_line_breaks(content)]
         r == publish(p, env, file, now, wo)
     IN /\ result_text' = IF r.ret.ok THEN <<"Publish successful">>
                          ELSE BlogErrorDisplay(r.ret.err)
        /\ file' = r.file
        /\ calls' = Append(calls, [post |-> p, pre |-> file, time |-> now,
                                   ret |-> r.ret, io |-> r.io])
        /\ title' = IF r.ret.ok THEN <<>> ELSE title
        /\ content' = IF r.ret.ok THEN <<>> ELSE content
  /\ UNCHANGED <<env, pc, post, blog_posts, ret, trace, splitIn, splitOut>>

\* ui.button("Publish").clicked()
Click(wo, now) ==
  /\ Len(calls) < MaxCalls
  /\ LET p == [title |-> title, content |-> split_on_line_breaks(content)]
         r == publish(p, env, file, now, wo)
     IN /\ result_text' = IF r.ret.ok THEN <<"Publish successful">>
                          ELSE BlogErrorDisplay(r.ret.err)
        /\ file' = r.file
        /\ calls' = Append(calls, [post |-> p, pre |-> file, time |-> now,
                                   ret |-> r.ret, io |-> r.io])
  /\ title' = <<>>
  /\ content' = <<>>
  /\ UNCHANGED <<env, pc, post, blog_posts, ret, trace, splitIn, splitOut>>

Next ==
  \/ \E t \in Titles : EditTitle(t)
  \/ \E c \in Contents : EditContent(c)
  \/ \E wo \in WriteOutcomes, now \in Times : Click(wo, now)

Spec == Init /\ [][Next]_vars

----------------------------------------------------------------------------
(* Two processes calling publish on the same store file.  A call is cut   *)
(* at its system calls: the lookup of the variable, the read of the file   *)
(* and the write of the file.                                              *)

Procs == {1, 2}

RacePosts ==
  { [title |-> <<"A">>, content |-> <<<<"a">>>>],
    [title |-> <<"B">>, content |-> <<>>] }

Pending == Err([kind |-> "Pending", msg |-> <<>>])

InitRace ==
  /\ env \in EnvStates
  /\ file \in InitFiles
  /\ result_text = <<>>
  /\ title = <<"Today's Entry">>
  /\ content = <<"Something happend today">>
  /\ calls = <<>>
  /\ pc = [p \in Procs |-> "start"]
  /\ post \in [Procs -> RacePosts]
  /\ blog_posts = [p \in Procs |-> DefaultBlogPosts]
  /\ ret = [p \in Procs |-> Pending]
  /\ trace = <<>>
  /\ splitIn = <<>> /\ splitOut = <<>>

\* env::var and its map_err
PubEnv(p) ==
  /\ pc[p] = "start"
  /\ LET filename == EnvLookup(env)
     IN IF filename.ok
        THEN /\ pc' = [pc EXCEPT ![p] = "load"]
             /\ ret' = ret
        ELSE /\ pc' = [pc EXCEPT ![p] = "done"]
             /\ ret' = [ret EXCEPT ![p] = Err(filename.err)]
  /\ trace' = Append(trace, [proc |-> p, op |-> "env", seen |-> file, wo |-> "none"])
  /\ UNCHANGED <<env, file, title, content, result_text, calls,
                 post, blog_posts, splitIn, splitOut>>

\* from_file, unwrap_or_else and add_post
PubLoad(p, now) ==
  /\ pc[p] = "load"
  /\ blog_posts' = [blog_posts EXCEPT ![p] = add_post(LoadOrDefault(file), post[p], now)]
  /\ pc' = [pc EXCEPT ![p] = "save"]
  /\ trace' = Append(trace, [proc |-> p, op |-> "read", seen |-> file, wo |-> "none"])
  /\ UNCHANGED <<env, file, title, content, result_text, calls,
                 post, ret, splitIn, splitOut>>

\* a save that loads the file again and adds its post to what is there now
PubSave_reload(p, wo) ==
  /\ pc[p] = "save"
  /\ LET saved == save_to_file(add_post(LoadOrDefault(file), post[p], StartTime), file, wo)
     IN /\ file' = saved.file
        /\ ret' = [ret EXCEPT ![p] = IF saved.res.ok THEN Ok(TRUE)
                                     ELSE Err(CouldNotWritePostsFile)]
  /\ pc' = [pc EXCEPT ![p] = "done"]
  /\ trace' = Append(trace, [proc |-> p, op |-> "write", seen |-> file, wo |-> wo])
  /\ UNCHANGED <<env, title, content, result_text, calls,
                 post, blog_posts, splitIn, splitOut>>

\* save_to_file and the return
PubSave(p, wo) ==
  /\ pc[p] = "save"
  /\ LET saved == save_to_file(blog_posts[p], file, wo)
     IN /\ file' = saved.file
        /\ ret' = [ret EXCEPT ![p] = IF saved.res.ok THEN Ok(TRUE)
                                     ELSE Err(CouldNotWritePostsFile)]
  /\ pc' = [pc EXCEPT ![p] = "done"]
  /\ trace' = Append(trace, [proc |-> p, op |-> "write", seen |-> file, wo |-> wo])
  /\ UNCHANGED <<env, title, content, result_text, calls,
                 post, blog_posts, splitIn, splitOut>>

NextRace ==
  \/ \E p \in Procs : PubEnv(p)
  \/ \E p \in Procs, now \in Times : PubLoad(p, now)
  \/ \E p \in Procs, wo \in WriteOutcomes : PubSave(p, wo)

SpecRace == InitRace /\ [][NextRace]_vars

----------------------------------------------------------------------------
(* split_on_line_breaks on every text up to MaxLen characters *)

Chars == {"a", "b", "c", "\r", "\n"}
Texts == UNION { [1..n -> Chars] : n \in 0..MaxLen }

InitSplit ==
  /\ env = "Set"
  /\ file = Absent
  /\ result_text = <<>>
  /\ title = <<"Today's Entry">>
  /\ content = <<"Something happend today">>
  /\ calls = <<>>
  /\ pc = NoProcs /\ post = NoProcs /\ blog_posts = NoProcs /\ ret = NoProcs
  /\ trace = <<>>
  /\ splitIn \in Texts
  /\ splitOut = <<>>

ApplySplit ==
  /\ splitOut = <<>>
  /\ splitOut' = split_on_line_breaks(splitIn)
  /\ UNCHANGED <<env, file, title, content, result_text, calls,
                 pc, post, blog_posts, ret, trace, splitIn>>

NextSplit == ApplySplit

SpecSplit == InitSplit /\ [][NextSplit]_vars

----------------------------------------------------------------------------
(* Properties of publish in the window (Spec) *)

\* the file the i-th call left: nothing but publish touches the file
FileAfter(i) == IF i < Len(calls) THEN calls[i + 1].pre ELSE file

IsDefaultPlusOne(f, c) ==
  /\ f.exists
  /\ LET after == from_json_string(f.text)
     IN /\ after.ok
        /\ Len(after.val.posts) = 1
        /\ after.val.posts[1].title = c.post.title
        /\ after.val.posts[1].content = c.post.content
        /\ after.val.footer_links = <<>>
        /\ after.val.page = [title |-> <<>>, css |-> <<>>]

\* C1: a successful publish on a store file that loads as a collection of N
\* posts leaves N+1 posts: the entry's title and content at index 0, the
\* previous posts after it in their order, page and footer_links as before.
InsertAtFront ==
  \A i \in 1..Len(calls) :
    LET c == calls[i]
        before == from_file(c.pre)
        after == from_json_string(FileAfter(i).text)
    IN (c.ret.ok /\ before.ok) =>
         /\ after.ok
         /\ Len(after.val.posts) = Len(before.val.posts) + 1
         /\ after.val.posts[1].title = c.post.title
         /\ after.val.posts[1].content = c.post.content
         /\ \A k \in 1..Len(before.val.posts) :
              after.val.posts[k + 1] = before.val.posts[k]
         /\ after.val.page = before.val.page
         /\ after.val.footer_links = before.val.footer_links

InsertAtFrontWitness ==
  \E i \in 1..Len(calls) :
    /\ calls[i].ret.ok
    /\ from_file(calls[i].pre).ok
    /\ Len(from_file(calls[i].pre).val.posts) >= 2
    /\ from_file(calls[i].pre).val.footer_links # <<>>

\* C2: with the variable set and no file at the path, publish never fails on
\* the read, and a successful publish creates the file with exactly the new
\* post, no footer links and an empty page.
DefaultOnMissing ==
  \A i \in 1..Len(calls) :
    LET c == calls[i]
    IN (env = "Set" /\ ~c.pre.exists) =>
         /\ c.ret.ok \/ c.ret.err.kind = "CouldNotWritePostsFile"
         /\ c.ret.ok => IsDefaultPlusOne(FileAfter(i), c)

DefaultOnMissingWitness ==
  \E i \in 1..Len(calls) :
    env = "Set" /\ ~calls[i].pre.exists /\ calls[i].ret.ok /\ FileAfter(i).exists

\* C3: with the variable unset, every publish returns EnvVarNotFound with the
\* variable's name in the message and stops there: the file is neither read
\* nor created nor written.
EnvVarMissing ==
  \A i \in 1..Len(calls) :
    LET c == calls[i]
    IN env = "NotPresent" =>
         /\ ~c.ret.ok
         /\ c.ret.err.kind = "EnvVarNotFound"
         /\ \E k \in 1..Len(c.ret.err.msg) : c.ret.err.msg[k] = "BLOG_POSTS_FILE"
         /\ c.io = <<"env">>
         /\ FileAfter(i) = c.pre

EnvVarMissingWitness ==
  \E i \in 1..Len(calls) :
    /\ env = "NotPresent" /\ calls[i].pre.exists
    /\ ~calls[i].ret.ok /\ FileAfter(i) = calls[i].pre

\* C4: when the write step fails, publish returns CouldNotWritePostsFile and
\* the file holds exactly its contents from before the call.
WriteFailureKeepsFile ==
  \A i \in 1..Len(calls) :
    LET c == calls[i]
    IN (~c.ret.ok /\ c.io = <<"env", "read", "write">>) =>
         /\ c.ret.err.kind = "CouldNotWritePostsFile"
         /\ FileAfter(i) = c.pre

\* C5: a readable file that does not parse is treated as an absent one: no
\* read or parse error is returned, and a successful publish leaves the
\* default collection plus the new post.
UnparsableAsAbsent ==
  \A i \in 1..Len(calls) :
    LET c == calls[i]
    IN (env = "Set" /\ c.pre.exists /\ c.pre.readable
          /\ ~from_json_string(c.pre.text).ok) =>
         /\ c.ret.ok \/ c.ret.err.kind = "CouldNotWritePostsFile"
         /\ c.ret.ok => IsDefaultPlusOne(FileAfter(i), c)

UnparsableAsAbsentWitness ==
  \E i \in 1..Len(calls) :
    /\ calls[i].pre.exists /\ calls[i].pre.readable
    /\ calls[i].pre.text # <<>>
    /\ ~from_json_string(calls[i].pre.text).ok
    /\ calls[i].ret.ok

\* C6: publish returns success, EnvVarNotFound or CouldNotWritePostsFile;
\* UnableToReadPostsFile and PostsFileUnParsable never reach the caller.
OnlyTwoErrorKinds ==
  \A i \in 1..Len(calls) :
    \/ calls[i].ret.ok
    \/ calls[i].ret.err.kind \in {"EnvVarNotFound", "CouldNotWritePostsFile"}

OnlyTwoErrorKindsWitness ==
  /\ \E i \in 1..Len(calls) :
       env = "Set" /\ calls[i].pre.exists /\ ~from_file(calls[i].pre).ok
  /\ \E i \in 1..Len(calls) :
       ~calls[i].ret.ok /\ calls[i].ret.err.kind = "CouldNotWritePostsFile"

\* C7: starting from an absent file, after k calls that all succeeded the
\* file holds exactly the k posts, the most recent call's first.
AllSucceeded == \A i \in 1..Len(calls) : calls[i].ret.ok

ReverseChronological ==
  (calls # <<>> /\ ~calls[1].pre.exists /\ AllSucceeded) =>
    LET stored == from_json_string(file.text)
    IN /\ stored.ok
       /\ Len(stored.val.posts) = Len(calls)
       /\ \A i \in 1..Len(calls) :
            LET sp == stored.val.posts[Len(calls) + 1 - i]
            IN /\ sp.title = calls[i].post.title
               /\ sp.content = calls[i].post.content
               /\ sp.woa_time = time_to_soleilfou(calls[i].time)

ReverseChronologicalWitness ==
  /\ Len(calls) >= 2 /\ ~calls[1].pre.exists /\ AllSucceeded
  /\ calls[1].post # calls[2].post

\* C8: every click on Publish leaves title and content empty and sets the
\* status text to "Publish successful" or to the error's message.
ClickClearsFields ==
  [][Len(calls') > Len(calls) =>
       /\ title' = <<>>
       /\ content' = <<>>
       /\ LET r == calls'[Len(calls')].ret
          IN result_text' =
               IF r.ok THEN <<"Publish successful">>
               ELSE IF r.err.kind = "EnvVarNotFound"
                 THEN <<"Could not find env var: ">> \o r.err.msg
               ELSE <<"Could not write to or save Posts file">>]_vars

ClickClearsFieldsWitness ==
  /\ calls # <<>>
  /\ ~calls[Len(calls)].ret.ok
  /\ calls[Len(calls)].post.title # <<>>
  /\ title = <<>> /\ content = <<>>
  /\ result_text = <<"Could not write to or save Posts file">>

----------------------------------------------------------------------------
(* Property of split_on_line_breaks (SpecSplit) *)

CountLF(s) == Cardinality({i \in 1..Len(s) : s[i] = "\n"})

RECURSIVE JoinLF(_)
JoinLF(lines) ==
  IF Len(lines) = 1 THEN lines[1]
  ELSE lines[1] \o <<"\n">> \o JoinLF(Tail(lines))

\* C9: the result is the segments between line feeds of the text without its
\* carriage returns: no element holds a CR or LF, and there is one element
\* more than there are line feeds.
SplitCorrect ==
  splitOut # <<>> =>
    /\ Len(splitOut) = CountLF(splitIn) + 1
    /\ \A i \in 1..Len(splitOut) : \A j \in 1..Len(splitOut[i]) :
         splitOut[i][j] \notin {"\r", "\n"}
    /\ JoinLF(splitOut) = SelectSeq(splitIn, LAMBDA ch : ch # "\r")
    /\ splitIn = <<"a", "\r", "\n", "b", "\n", "c">>
         => splitOut = << <<"a">>, <<"b">>, <<"c">> >>
    /\ splitIn = <<>> => splitOut = << <<>> >>

SplitCorrectWitness ==
  /\ splitIn = <<"a", "\r", "\n", "b", "\n", "c">>
  /\ splitOut = << <<"a">>, <<"b">>, <<"c">> >>

----------------------------------------------------------------------------
(* Property of two interleaved calls (SpecRace) *)

Position(p, op) == CHOOSE k \in 1..Len(trace) : trace[k].proc = p /\ trace[k].op = op
Did(p, op) == \E k \in 1..Len(trace) : trace[k].proc = p /\ trace[k].op = op

\* both calls read the file before either wrote it, and both writes went through
BothReadFirst ==
  /\ \A p \in Procs : pc[p] = "done" /\ Did(p, "read") /\ Did(p, "write")
  /\ \A p, q \in Procs : Position(p, "read") < Position(q, "write")
  /\ \A k \in 1..Len(trace) : trace[k].op = "write" => trace[k].wo = "written"

====
